---- MODULE Spec2Model ----
(***************************************************************************)
(* Verification model of public_transit_client: the journey entities Leg,  *)
(* Trip, StopTime, Connection and their derived properties (model.py), and *)
(* the query methods of PublicTransitClient (client.py), each a sequence   *)
(* of steps: parameters built, one GET sent, response handled, entities    *)
(* built one by one, result returned or exception raised.                  *)
(*                                                                         *)
(* A decoded response payload is handed to the Connection constructor,     *)
(* which validates it; afterwards the properties of the Connection and of  *)
(* its Legs are read.  Every property is a pure function of the entity, so *)
(* each one is an operator, computed the way the Python code computes it   *)
(* (loops become RECURSIVE scans), and one action reads it.                *)
(*                                                                         *)
(* Representation.  A Stop is compared by value (pydantic BaseModel        *)
(* equality), so a Stop is represented by a string standing for the tuple  *)
(* of its fields; Python's None is NoneStop for an optional Stop and the   *)
(* record None for an optional Trip/Leg/Connection.  A naive datetime is   *)
(* [day, sec, us]: proleptic ordinal, second of the day, microsecond.  A   *)
(* call either returns a value or raises: [exc, val].  The coordinates of  *)
(* a Leg take no part in any property modelled here and are left out.      *)
(***************************************************************************)
EXTENDS Integers, Sequences, FiniteSets, TLC

VARIABLES
    payload,    \* the decoded JSON object handed to Connection(**payload)
    conn,       \* the Connection object that exists, or None
    op,         \* the last operation performed
    arg,        \* index of the leg the last operation read (0 otherwise)
    ret,        \* outcome of the last operation: [exc, val]
    a_trip,     \* the Trip object that exists, or None
    call,       \* the client call in progress: method, arguments, endpoint, params
    http,       \* the GET requests the current call has issued: [url, params]
    response,   \* the Response requests.get returned to the current call, or None
    built,      \* the entities the current call has constructed so far
    pc          \* where the current call stands

client == <<call, http, response, built, pc>>

vars == <<payload, conn, op, arg, ret, a_trip, call, http, response, built, pc>>

(***************************************************************************)
(* Values                                                                  *)
(***************************************************************************)
None == [none |-> TRUE]
NoneStop == "None"
WALK == "WALK"
ROUTE == "ROUTE"
LegType == {WALK, ROUTE}

Return(v) == [exc |-> "none", val |-> v]
Raise(e) == [exc |-> e, val |-> None]

\* datetime(...) of the given day (date.toordinal()) and wall-clock time
DT(day, hour, minute, second, microsecond) ==
    [day |-> day, sec |-> hour * 3600 + minute * 60 + second, us |-> microsecond]

(***************************************************************************)
(* datetime arithmetic used by the duration properties                     *)
(***************************************************************************)
\* timedelta(days, seconds, microseconds): the normalised representation,
\* 0 <= seconds < 86400 and 0 <= microseconds < 1000000, carries by floor division
timedelta(days, seconds, microseconds) ==
    LET s  == seconds + (microseconds \div 1000000)
        us == microseconds % 1000000
    IN  [days |-> days + (s \div 86400), seconds |-> s % 86400, microseconds |-> us]

\* a - b for two naive datetimes
datetime_sub(a, b) == timedelta(a.day - b.day, a.sec - b.sec, a.us - b.us)

\* datetime.date()
datetime_date(a) == a.day

(***************************************************************************)
(* Trip and StopTime                                                       *)
(***************************************************************************)
\* A JSON value given for a list field: null, or an array of items.
JsonNull == [null |-> TRUE, items |-> <<>>]
JsonList(items) == [null |-> FALSE, items |-> items]

\* StopTime(**data): stop is a required Stop, a null stop is not one
StopTime(data) ==
    IF data.stop = NoneStop
    THEN Raise("ValidationError")
    ELSE Return([stop |-> data.stop])

\* Variant: the value is handed on as it came.
stop_times_as_given(v) == v

\* return v or []
Trip_set_stop_times_not_none(v) ==
    IF v.null \/ v.items = <<>> THEN JsonList(<<>>) ELSE v

\* Trip(**data): stopTimes is a required field (no default), so pydantic
\* reports it missing without running the field's validator; a value that is
\* present goes through the "before" validator and is then validated as
\* list[StopTime], element by element, in order.
Trip(data) ==
    IF "stopTimes" \notin DOMAIN data
    THEN Raise("ValidationError")
    ELSE LET v == Trip_set_stop_times_not_none(data.stopTimes)
             n == Len(v.items)
         IN  IF v.null \/ \E i \in 1..n : StopTime(v.items[i]).exc # "none"
             THEN Raise("ValidationError")
             ELSE Return([head_sign |-> data.headSign,
                          stop_times |-> [i \in 1..n |-> StopTime(v.items[i]).val]])

(***************************************************************************)
(* Leg                                                                     *)
(***************************************************************************)
\* Variant: the elapsed time in whole seconds, days included.
duration_total_seconds(leg) ==
    LET d == datetime_sub(leg.arrival_time, leg.departure_time)
    IN  d.days * 86400 + d.seconds

Leg_duration(leg) == datetime_sub(leg.arrival_time, leg.departure_time).seconds

Leg_is_walk(leg) == leg.type = WALK

Leg_is_route(leg) == leg.type = ROUTE

\* from_stop_index = None / to_stop_index = None
NoIndex == -1

\* Variant: from_stop_index is set once only, by the first match.
RECURSIVE scan_first_match(_, _, _, _)
scan_first_match(leg, i, from_stop_index, to_stop_index) ==
    IF i >= Len(leg.trip.stop_times)
    THEN [from_stop_index |-> from_stop_index, to_stop_index |-> to_stop_index]
    ELSE LET stop_time == leg.trip.stop_times[i + 1]
             f == IF stop_time.stop = leg.from_stop /\ from_stop_index = NoIndex
                  THEN i ELSE from_stop_index
         IN  IF stop_time.stop = leg.to_stop
             THEN [from_stop_index |-> f, to_stop_index |-> i]
             ELSE scan_first_match(leg, i + 1, f, to_stop_index)

\* The for loop of num_stops from position i on: every StopTime whose stop
\* equals from_stop overwrites from_stop_index; the first one whose stop equals
\* to_stop sets to_stop_index and breaks.
\* Variant: the scan does not stop at to_stop.
RECURSIVE scan_whole_trip(_, _, _, _)
scan_whole_trip(leg, i, from_stop_index, to_stop_index) ==
    IF i >= Len(leg.trip.stop_times)
    THEN [from_stop_index |-> from_stop_index, to_stop_index |-> to_stop_index]
    ELSE LET stop_time == leg.trip.stop_times[i + 1]
         IN  scan_whole_trip(leg, i + 1,
                             IF stop_time.stop = leg.from_stop THEN i ELSE from_stop_index,
                             IF stop_time.stop = leg.to_stop THEN i ELSE to_stop_index)

RECURSIVE scan_stop_times(_, _, _, _)
scan_stop_times(leg, i, from_stop_index, to_stop_index) ==
    IF i >= Len(leg.trip.stop_times)
    THEN [from_stop_index |-> from_stop_index, to_stop_index |-> to_stop_index]
    ELSE LET stop_time == leg.trip.stop_times[i + 1]
             f == IF stop_time.stop = leg.from_stop THEN i ELSE from_stop_index
         IN  IF stop_time.stop = leg.to_stop
             THEN [from_stop_index |-> f, to_stop_index |-> i]
             ELSE scan_stop_times(leg, i + 1, f, to_stop_index)

\* Variant: the early return tests the trip only.
guard_trip_only(leg) == leg.trip = None

\* the early return of num_stops
num_stops_guard(leg) == leg.trip = None \/ ~Leg_is_route(leg)

\* Variant: the stops are counted inclusively.
result_inclusive(from_stop_index, to_stop_index) ==
    IF from_stop_index = NoIndex \/ to_stop_index = NoIndex
    THEN Raise("ValueError")
    ELSE Return(to_stop_index - from_stop_index + 1)

\* Variant: the lookup fails only when both stops are missing.
result_both_missing(from_stop_index, to_stop_index) ==
    IF from_stop_index = NoIndex /\ to_stop_index = NoIndex
    THEN Raise("ValueError")
    ELSE Return(to_stop_index - from_stop_index)

\* the result of num_stops once the indices are known
num_stops_result(from_stop_index, to_stop_index) ==
    IF from_stop_index = NoIndex \/ to_stop_index = NoIndex
    THEN Raise("ValueError")
    ELSE Return(to_stop_index - from_stop_index)

Leg_num_stops(leg) ==
    IF num_stops_guard(leg)
    THEN Return(0)
    ELSE LET idx == scan_stop_times(leg, 0, NoIndex, NoIndex)
         IN  num_stops_result(idx.from_stop_index, idx.to_stop_index)

(***************************************************************************)
(* Connection                                                              *)
(***************************************************************************)
\* Variant: the validator accepts every list.
legs_unchecked(v) == Return(v)

\* field validator of Connection.legs
legs_not_empty(v) ==
    IF v = <<>> THEN Raise("ValueError") ELSE Return(v)

\* Connection(**data): pydantic runs the field validator and turns its
\* ValueError into a ValidationError; no object is returned then.
Connection(data) ==
    LET v == legs_not_empty(data.legs)
    IN  IF v.exc # "none"
        THEN Raise("ValidationError")
        ELSE Return([legs |-> v.val])

\* legs[0] and legs[-1]; indexing an empty list raises IndexError
Connection_first_leg(c) ==
    IF Len(c.legs) = 0 THEN Raise("IndexError") ELSE Return(c.legs[1])

Connection_last_leg(c) ==
    IF Len(c.legs) = 0 THEN Raise("IndexError") ELSE Return(c.legs[Len(c.legs)])

\* for leg in legs: if leg.is_route: return leg
RECURSIVE first_route_in(_)
first_route_in(legs) ==
    IF legs = <<>> THEN None
    ELSE IF Leg_is_route(Head(legs)) THEN Head(legs)
    ELSE first_route_in(Tail(legs))

\* reversed(legs)
RECURSIVE reversed(_)
reversed(s) ==
    IF s = <<>> THEN <<>> ELSE Append(reversed(Tail(s)), Head(s))

Connection_first_route_leg(c) == first_route_in(c.legs)

\* Variant: the legs are not reversed.
last_route_leg_forward(c) == first_route_in(c.legs)

Connection_last_route_leg(c) == first_route_in(reversed(c.legs))

Connection_first_stop(c) ==
    LET first_route_leg == Connection_first_route_leg(c)
    IN  IF first_route_leg # None THEN first_route_leg.from_stop ELSE NoneStop

Connection_last_stop(c) ==
    LET last_route_leg == Connection_last_route_leg(c)
    IN  IF last_route_leg # None THEN last_route_leg.to_stop ELSE NoneStop

\* Variant: the times are taken from the first / last route leg when there is one.
departure_time_of_route_leg(c) ==
    LET first_route_leg == Connection_first_route_leg(c)
    IN  IF first_route_leg # None
        THEN first_route_leg.departure_time
        ELSE Connection_first_leg(c).val.departure_time

Connection_departure_time(c) == Connection_first_leg(c).val.departure_time

Connection_arrival_time(c) == Connection_last_leg(c).val.arrival_time

Connection_duration(c) ==
    datetime_sub(Connection_arrival_time(c), Connection_departure_time(c)).seconds

\* Variant: the connection spans several dates when it lasts a day or more.
multi_date_by_elapsed_days(c) ==
    datetime_sub(Connection_arrival_time(c), Connection_departure_time(c)).days # 0

Connection_multi_date(c) ==
    datetime_date(Connection_departure_time(c)) # datetime_date(Connection_arrival_time(c))

\* sum(leg.duration for leg in legs)
RECURSIVE sum_duration(_)
sum_duration(legs) ==
    IF legs = <<>> THEN 0 ELSE Leg_duration(Head(legs)) + sum_duration(Tail(legs))

\* [leg for leg in legs if leg.is_walk] and [... if leg.is_route]
walk_legs(legs) == SelectSeq(legs, Leg_is_walk)

route_legs(legs) == SelectSeq(legs, Leg_is_route)

\* Variant: the time from the first departure to the last arrival.
travel_duration_elapsed(c) == Connection_duration(c)

Connection_travel_duration(c) == sum_duration(c.legs)

Connection_walk_duration(c) == sum_duration(walk_legs(c.legs))

Connection_route_duration(c) == sum_duration(route_legs(c.legs))

\* sum(1 for leg in legs if leg.is_route)
RECURSIVE count_route(_)
count_route(legs) ==
    IF legs = <<>> THEN 0
    ELSE (IF Leg_is_route(Head(legs)) THEN 1 ELSE 0) + count_route(Tail(legs))

\* Variant: the count is clamped at 0.
num_transfers_clamped(c) ==
    IF count_route(c.legs) = 0 THEN 0 ELSE count_route(c.legs) - 1

Connection_num_transfers(c) == count_route(c.legs) - 1

\* sum(1 for prev_leg, current_leg in pairwise(legs) if both are route legs)
RECURSIVE count_route_pairs(_)
count_route_pairs(legs) ==
    IF Len(legs) < 2 THEN 0
    ELSE (IF Leg_is_route(legs[1]) /\ Leg_is_route(legs[2]) THEN 1 ELSE 0)
         + count_route_pairs(Tail(legs))

\* Variant: the legs are paired off two by two: (0,1), (2,3), ...
RECURSIVE count_route_chunks(_)
count_route_chunks(legs) ==
    IF Len(legs) < 2 THEN 0
    ELSE (IF Leg_is_route(legs[1]) /\ Leg_is_route(legs[2]) THEN 1 ELSE 0)
         + count_route_chunks(Tail(Tail(legs)))

num_same_station_transfers_chunked(c) == count_route_chunks(c.legs)

\* Variant: consecutive route legs are paired whatever walk legs lie between.
num_same_station_transfers_over_walks(c) ==
    IF count_route(c.legs) = 0 THEN 0 ELSE count_route(c.legs) - 1

Connection_num_same_station_transfers(c) == count_route_pairs(c.legs)

\* Variant: a leg whose stops cannot be looked up counts for 0.
RECURSIVE sum_num_stops_lenient(_)
sum_num_stops_lenient(legs) ==
    IF legs = <<>> THEN Return(0)
    ELSE LET rest == sum_num_stops_lenient(Tail(legs))
             n == Leg_num_stops(Head(legs))
         IN  IF ~Leg_is_route(Head(legs)) \/ n.exc # "none"
             THEN rest
             ELSE Return(n.val + rest.val)

\* sum(leg.num_stops for leg in legs if leg.is_route): the legs are taken in
\* order, and the ValueError of a leg ends the sum
RECURSIVE sum_num_stops(_)
sum_num_stops(legs) ==
    IF legs = <<>> THEN Return(0)
    ELSE IF ~Leg_is_route(Head(legs)) THEN sum_num_stops(Tail(legs))
    ELSE IF Leg_num_stops(Head(legs)).exc # "none" THEN Leg_num_stops(Head(legs))
    ELSE IF sum_num_stops(Tail(legs)).exc # "none" THEN sum_num_stops(Tail(legs))
    ELSE Return(Leg_num_stops(Head(legs)).val + sum_num_stops(Tail(legs)).val)

Connection_num_stops(c) == sum_num_stops(c.legs)

(***************************************************************************)
(* Payloads: the decoded JSON the program is given                         *)
(***************************************************************************)
\* stop_times of a Trip, one StopTime per stop of the sequence, in order
TripOf(stops) == [stop_times |-> [i \in 1..Len(stops) |-> [stop |-> stops[i]]]]

MkLeg(type, from_stop, to_stop, departure_time, arrival_time, trip) ==
    [type |-> type, from_stop |-> from_stop, to_stop |-> to_stop,
     departure_time |-> departure_time, arrival_time |-> arrival_time,
     trip |-> trip]

SeqsUpTo(S, n) == UNION {[1..k -> S] : k \in 0..n}

\* bounds of the payload universes
MaxLegs == 4
MaxStopTimes == 4
MaxTimeLegs == 2

\* Journeys: the legs a connection payload is assembled from.  Walk and route
\* legs, with and without stops and trips, touching or not, one of them
\* spanning more than a day, one whose trip does not lead from from_stop to
\* to_stop.
ConnLegs ==
    { MkLeg(WALK, NoneStop, "A", DT(739116, 23, 40, 0, 0), DT(739116, 23, 50, 0, 0), None),
      MkLeg(ROUTE, "A", "C", DT(739116, 23, 50, 0, 0), DT(739117, 0, 10, 0, 0),
            TripOf(<<"A", "B", "C">>)),
      MkLeg(ROUTE, "C", "D", DT(739117, 0, 15, 0, 0), DT(739117, 0, 45, 0, 0), None),
      MkLeg(WALK, "D", NoneStop, DT(739117, 0, 45, 0, 0), DT(739117, 0, 50, 0, 0), None),
      MkLeg(ROUTE, "B", "A", DT(739116, 23, 50, 0, 0), DT(739118, 0, 0, 10, 0),
            TripOf(<<"A", "B">>)) }

ConnPayloads == {[legs |-> s] : s \in SeqsUpTo(ConnLegs, MaxLegs)}

\* Single legs over every trip of up to MaxStopTimes stop times on a looping
\* line A, B, C, plus the four-stop trip A, B, C, D.
LoopStops == {"A", "B", "C"}

Trips ==
    {TripOf(s) : s \in SeqsUpTo(LoopStops, MaxStopTimes)}
        \cup {TripOf(<<"A", "B", "C", "D">>)}

StopLegs ==
    {MkLeg(type, from_stop, to_stop, DT(739116, 17, 34, 3, 0), DT(739116, 18, 0, 0, 0), trip) :
        type \in LegType,
        from_stop \in LoopStops \cup {NoneStop},
        to_stop \in LoopStops \cup {"D", NoneStop},
        trip \in Trips \cup {None}}

LegPayloads == {[legs |-> <<leg>>] : leg \in StopLegs} \cup {[legs |-> <<>>]}

\* Legs over every pair of a few instants: across midnight, half a second
\* apart, more than a day apart, in either order.
Times ==
    { DT(739116, 23, 50, 0, 0), DT(739117, 0, 10, 0, 0),
      DT(739117, 0, 10, 0, 500000), DT(739118, 0, 10, 1, 0) }

TimeLegs ==
    {MkLeg(ROUTE, NoneStop, NoneStop, departure_time, arrival_time, None) :
        departure_time \in Times, arrival_time \in Times}

TimePayloads == {[legs |-> s] : s \in SeqsUpTo(TimeLegs, MaxTimeLegs)}

\* Walk legs over every pair of three instants: ten minutes before midnight,
\* ten minutes after it, and 23 hours later on that second date.
DateTimes ==
    { DT(739116, 23, 50, 0, 0), DT(739117, 0, 10, 0, 0), DT(739117, 23, 10, 0, 0) }

DateLegs ==
    {MkLeg(WALK, NoneStop, NoneStop, departure_time, arrival_time, None) :
        departure_time \in DateTimes, arrival_time \in DateTimes}

DatePayloads == {[legs |-> s] : s \in SeqsUpTo(DateLegs, MaxTimeLegs)}

\* Trip payloads: stopTimes missing, null, or an array of up to MaxStopTimeItems
\* stop times, whose stop may be null.
MaxStopTimeItems == 3

StopTimeItems == {[stop |-> s] : s \in LoopStops \cup {NoneStop}}

TripPayloads ==
    {[headSign |-> "Airport"]}
        \cup {[headSign |-> "Airport", stopTimes |-> v] :
                v \in {JsonNull} \cup {JsonList(s) : s \in SeqsUpTo(StopTimeItems, MaxStopTimeItems)}}

\* Connections whose legs are replaced after construction: payloads of up to
\* MaxAssignLegs legs, and the lists a caller assigns (empty or one leg).
MaxAssignLegs == 2

AssignPayloads == {[legs |-> s] : s \in SeqsUpTo(ConnLegs, MaxAssignLegs)}

AssignedLegs == {<<>>} \cup {<<leg>> : leg \in ConnLegs}

(***************************************************************************)
(* PublicTransitClient (client.py)                                         *)
(*                                                                         *)
(* An argument that may be of several Python types carries its type in     *)
(* kind.  A float is [whole, tenths]; a datetime handed to the client is   *)
(* its calendar fields.  A response body is text that is not JSON, or a    *)
(* JSON value: null, an object (its fields) or an array (its items).       *)
(***************************************************************************)
host == "http://fakehost"

float(whole, tenths) == [whole |-> whole, tenths |-> tenths]

\* str(x) of a float
str_float(x) == ToString(x.whole) \o "." \o ToString(x.tenths)

datetime(year, month, day, hour, minute, second) ==
    [year |-> year, month |-> month, day |-> day,
     hour |-> hour, minute |-> minute, second |-> second]

\* zero-padded decimal of two digits
pad2(n) == IF n < 10 THEN "0" \o ToString(n) ELSE ToString(n)

\* t.strftime("%Y-%m-%dT%H:%M:%S"), for a year of four digits
strftime(t) ==
    ToString(t.year) \o "-" \o pad2(t.month) \o "-" \o pad2(t.day)
        \o "T" \o pad2(t.hour) \o ":" \o pad2(t.minute) \o ":" \o pad2(t.second)

AStop(id) == [kind |-> "Stop", id |-> id]
AStr(value) == [kind |-> "str", value |-> value]
ACoordinate(latitude, longitude) ==
    [kind |-> "Coordinate", latitude |-> latitude, longitude |-> longitude]
ATuple(latitude, longitude) ==
    [kind |-> "tuple", latitude |-> latitude, longitude |-> longitude]
ANone == [kind |-> "None"]

\* Coordinate.to_tuple()
Coordinate_to_tuple(c) == ATuple(c.latitude, c.longitude)

isinstance(v, type) == v.kind = type

\* v is b, for b the object True or False: v is that very object
is_bool(v, b) == v.kind = "bool" /\ v.value = b

\* the rebinding of source / target at the head of _build_params_dict
stop_or_coordinate(v) ==
    IF isinstance(v, "Stop") THEN AStr(v.id)
    ELSE IF isinstance(v, "Coordinate") THEN Coordinate_to_tuple(v)
    ELSE v

\* the keys _build_params_dict adds for source (side "source") or target
place_params(side, v) ==
    IF is_bool(v, isinstance(v, "tuple"))
    THEN ((side \o "Latitude") :> str_float(v.latitude))
            @@ ((side \o "Longitude") :> str_float(v.longitude))
    ELSE IF isinstance(v, "str")
    THEN (side \o "StopId") :> v.value
    ELSE <<>>

\* _build_params_dict(source, target, time=time, time_type=time_type), the four
\* limits keeping their default None; now is what datetime.now() returns
build_params_dict(source, target, time, time_type, now) ==
    ("dateTime" :> strftime(IF time = None THEN now ELSE time))
        @@ place_params("source", stop_or_coordinate(source))
        @@ (IF stop_or_coordinate(target) # ANone
            THEN place_params("target", stop_or_coordinate(target))
            ELSE <<>>)
        @@ ("timeType" :> time_type)

\* endpoint and params of the GET request each query method sends
Request(c, now) ==
    CASE c.method = "search_stops" ->
            [endpoint |-> "/schedule/stops/autocomplete",
             params |-> [query |-> c.query, limit |-> ToString(c.limit),
                         searchType |-> c.search_type]]
      [] c.method = "nearest_stops" ->
            [endpoint |-> "/schedule/stops/nearest",
             params |-> [latitude |-> str_float(c.coordinate.latitude),
                         longitude |-> str_float(c.coordinate.longitude),
                         limit |-> ToString(c.limit),
                         maxDistance |-> ToString(c.max_distance)]]
      [] c.method = "get_stop" ->
            [endpoint |-> "/schedule/stops/" \o c.stop_id, params |-> None]
      [] c.method = "get_next_departures" ->
            [endpoint |-> "/schedule/stops/"
                            \o (IF isinstance(c.stop, "Stop") THEN c.stop.id ELSE c.stop.value)
                            \o "/departures",
             params |-> [limit |-> ToString(c.limit)]]
      [] c.method = "get_connections" ->
            [endpoint |-> "/routing/connections",
             params |-> build_params_dict(c.source, c.target, c.time, c.time_type, now)]
      [] c.method = "get_isolines" ->
            [endpoint |-> "/routing/isolines",
             params |-> build_params_dict(c.source, ANone, c.time, c.time_type, now)
                        @@ (IF c.return_connections
                            THEN "returnConnections" :> "true"
                            ELSE <<>>)]

\* JSON values of a response body; text that is not JSON
Object(fields) == [type |-> "object", fields |-> fields]
Array(items) == [type |-> "array", items |-> items]
Null == [type |-> "null"]
NotJson == [type |-> "text"]

\* response.json(): JSONDecodeError (a ValueError) on text that is not JSON;
\* JSON null decodes to None
Response_json(r) ==
    IF r.body.type = "text" THEN Raise("JSONDecodeError")
    ELSE IF r.body.type = "null" THEN Return(None)
    ELSE Return(r.body)

\* APIError(**v): ** needs a mapping; all five fields are required
APIError(v) ==
    IF v = None \/ v.type # "object" THEN Raise("TypeError")
    ELSE IF {"timestamp", "status", "error", "path", "message"} \subseteq DOMAIN v.fields
    THEN Return([timestamp |-> v.fields.timestamp, status |-> v.fields.status,
                 error |-> v.fields.error, path |-> v.fields.path,
                 message |-> v.fields.message])
    ELSE Raise("ValidationError")

\* raise PublicTransitClientException(api_error)
PublicTransitClientException(api_error) ==
    [exc |-> "PublicTransitClientException",
     val |-> [api_error |-> api_error,
              args |-> "API Error " \o ToString(api_error.status) \o ": "
                          \o api_error.message]]

\* the exceptions `except ValueError` catches
ValueErrors == {"JSONDecodeError", "ValidationError"}

\* Variant: every status handed to it is an error.
raise_for_status_always(r) == Raise("HTTPError")

\* response.raise_for_status(): HTTPError for a 4xx / 5xx status, else nothing
raise_for_status(r) ==
    IF r.status_code >= 400 /\ r.status_code < 600
    THEN Raise("HTTPError")
    ELSE Return(None)

\* Variant: `except Exception`, which also catches the exception raised in the
\* try block.
handle_response_except_all(r) ==
    IF r.status_code = 200 THEN Response_json(r) ELSE raise_for_status(r)

\* Variant: every status below 400 counts as a success.
handle_response_ok(r) ==
    IF r.status_code < 400
    THEN Response_json(r)
    ELSE LET error_details == IF Response_json(r).exc = "none"
                              THEN APIError(Response_json(r).val)
                              ELSE Response_json(r)
         IN  IF error_details.exc = "none"
             THEN PublicTransitClientException(error_details.val)
             ELSE IF error_details.exc \in ValueErrors
             THEN raise_for_status(r)
             ELSE error_details

\* _handle_response(response): the value returned or the exception raised
handle_response(r) ==
    IF r.status_code = 200
    THEN Response_json(r)
    ELSE LET error_details == IF Response_json(r).exc = "none"
                              THEN APIError(Response_json(r).val)
                              ELSE Response_json(r)
         IN  IF error_details.exc = "none"
             THEN PublicTransitClientException(error_details.val)
             ELSE IF error_details.exc \in ValueErrors
             THEN raise_for_status(r)
             ELSE error_details

\* Stop(**data): id is a required str
Stop(data) ==
    IF "id" \notin DOMAIN data \/ data.id = NoneStop
    THEN Raise("ValidationError")
    ELSE Return(data.id)

\* DistanceToStop(**data)
DistanceToStop(data) ==
    IF Stop(data.stop).exc # "none"
    THEN Raise("ValidationError")
    ELSE Return([stop |-> Stop(data.stop).val, distance |-> data.distance])

\* Departure(**data)
Departure(data) ==
    IF StopTime(data.stopTime).exc # "none" \/ Trip(data.trip).exc # "none"
    THEN Raise("ValidationError")
    ELSE Return([stop_time |-> StopTime(data.stopTime).val, trip |-> Trip(data.trip).val])

\* StopConnection(**data): connection is optional and defaults to None
StopConnection(data) ==
    LET connection == IF "connection" \in DOMAIN data
                      THEN Connection(data.connection)
                      ELSE Return(None)
    IN  IF Stop(data.stop).exc # "none" \/ connection.exc # "none"
        THEN Raise("ValidationError")
        ELSE Return([stop |-> Stop(data.stop).val,
                     connecting_leg |-> data.connectingLeg,
                     connection |-> connection.val])

\* the entity each query method builds from an element of the payload
Entity(method, data) ==
    CASE method \in {"search_stops", "get_stop"} -> Stop(data)
      [] method = "nearest_stops" -> DistanceToStop(data)
      [] method = "get_next_departures" -> Departure(data)
      [] method = "get_connections" -> Connection(data)
      [] method = "get_isolines" -> StopConnection(data)

\* the list methods: [Entity(**x) for x in data]
ListMethods ==
    {"search_stops", "nearest_stops", "get_next_departures", "get_connections",
     "get_isolines"}

\* bool(v) of a decoded JSON value
truthy(v) ==
    /\ v # None
    /\ v.type = "object" => DOMAIN v.fields # {}
    /\ v.type = "array" => v.items # <<>>

\* Calls and responses.  Places are a Stop, a stop id, a Coordinate and a tuple;
\* the clock and the time argument take different values; a response has one of
\* four statuses and a body that is not JSON, null, an API error, another
\* object, or an array of up to MaxItems elements, valid or not.
MaxItems == 2

Places ==
    { AStop("A"), AStr("B"),
      ACoordinate(float(47, 5), float(8, 5)), ATuple(float(46, 9), float(7, 4)) }

Clock == { datetime(2024, 8, 18, 17, 34, 3) }

TimeArgs == { None, datetime(2024, 12, 31, 9, 5, 0) }

Calls ==
    {[method |-> "search_stops", query |-> "Zur", limit |-> 10, search_type |-> "CONTAINS"]}
    \cup {[method |-> "nearest_stops", coordinate |-> ACoordinate(float(47, 5), float(8, 5)),
           limit |-> 10, max_distance |-> 1000]}
    \cup {[method |-> "get_stop", stop_id |-> "A"]}
    \cup {[method |-> "get_next_departures", stop |-> s, limit |-> 10] :
            s \in {AStop("A"), AStr("B")}}
    \cup {[method |-> "get_connections", source |-> s, target |-> t, time |-> time,
           time_type |-> "DEPARTURE"] :
            s \in Places, t \in Places, time \in TimeArgs}
    \cup {[method |-> "get_isolines", source |-> s, time |-> time,
           time_type |-> "DEPARTURE", return_connections |-> rc] :
            s \in Places, time \in TimeArgs, rc \in BOOLEAN}

StatusCodes == {200, 204, 404, 500}

\* well-formed API errors
ErrorObjects ==
    { Object([timestamp |-> "2024-08-18T17:34:03.820509687", status |-> 404,
              error |-> "Not Found", path |-> "/schedule/stops/NOT_EXISTING",
              message |-> "The requested stop with ID 'NOT_EXISTING' was not found."]),
      Object([timestamp |-> "2024-08-18T17:34:04.000000000", status |-> 400,
              error |-> "Bad Request", path |-> "/routing/connections",
              message |-> "Invalid coordinates"]) }

StopItems == {[id |-> "A"], [id |-> "B"], [id |-> NoneStop]}

WalkLeg ==
    MkLeg(WALK, NoneStop, NoneStop, DT(739116, 23, 40, 0, 0), DT(739116, 23, 50, 0, 0), None)

\* the elements a payload for the method is made of: two valid ones and one
\* that fails validation
Items(method) ==
    CASE method \in {"search_stops", "get_stop"} -> StopItems
      [] method = "nearest_stops" ->
            {[stop |-> s, distance |-> float(120, 5)] : s \in StopItems}
      [] method = "get_next_departures" ->
            { [stopTime |-> [stop |-> "A"], trip |-> [headSign |-> "Airport", stopTimes |-> JsonNull]],
              [stopTime |-> [stop |-> "B"], trip |-> [headSign |-> "Airport", stopTimes |-> JsonNull]],
              [stopTime |-> [stop |-> "A"], trip |-> [headSign |-> "Airport"]] }
      [] method = "get_connections" ->
            { [legs |-> <<WalkLeg>>], [legs |-> <<WalkLeg, WalkLeg>>], [legs |-> <<>>] }
      [] method = "get_isolines" ->
            { [stop |-> [id |-> "A"], connectingLeg |-> WalkLeg],
              [stop |-> [id |-> "B"], connectingLeg |-> WalkLeg,
               connection |-> [legs |-> <<WalkLeg>>]],
              [stop |-> [id |-> "A"], connectingLeg |-> WalkLeg,
               connection |-> [legs |-> <<>>]] }

Bodies(method) ==
    {NotJson, Null, Object([status |-> 404])}
        \cup ErrorObjects
        \cup (IF method = "get_stop" THEN {Object(x) : x \in StopItems} ELSE {})
        \cup {Array(s) : s \in SeqsUpTo(Items(method), MaxItems)}

Responses(method) ==
    {[status_code |-> s, body |-> b] : s \in StatusCodes, b \in Bodies(method)}

\* Legs whose stops are counted: a walk leg, route legs over two and over one
\* stop, a route leg without trip, one whose to_stop is not on the trip, and
\* one whose to_stop comes before its from_stop.
MaxStopLegs == 3

StopCountLegs ==
    { MkLeg(WALK, "A", "B", DT(739116, 8, 0, 0, 0), DT(739116, 8, 10, 0, 0), None),
      MkLeg(ROUTE, "A", "C", DT(739116, 8, 10, 0, 0), DT(739116, 8, 30, 0, 0),
            TripOf(<<"A", "B", "C">>)),
      MkLeg(ROUTE, "C", "D", DT(739116, 8, 30, 0, 0), DT(739116, 8, 40, 0, 0),
            TripOf(<<"B", "C", "D">>)),
      MkLeg(ROUTE, "D", "A", DT(739116, 8, 40, 0, 0), DT(739116, 8, 50, 0, 0), None),
      MkLeg(ROUTE, "A", "D", DT(739116, 8, 50, 0, 0), DT(739116, 9, 0, 0, 0),
            TripOf(<<"A", "B", "C">>)),
      MkLeg(ROUTE, "C", "A", DT(739116, 9, 0, 0, 0), DT(739116, 9, 10, 0, 0),
            TripOf(<<"A", "B", "C">>)) }

StopCountPayloads == {[legs |-> s] : s \in SeqsUpTo(StopCountLegs, MaxStopLegs)}

(***************************************************************************)
(* Operations                                                              *)
(***************************************************************************)
\* Connection(**payload): the object exists only if validation passes
Construct ==
    /\ op = "start"
    /\ LET r == Connection(payload)
       IN  /\ conn' = IF r.exc = "none" THEN r.val ELSE None
           /\ ret' = r
    /\ op' = "Connection"
    /\ arg' = 0
    /\ UNCHANGED <<payload, a_trip, client>>

\* reading property name of the connection yields outcome
ReadConnection(name, outcome) ==
    /\ conn # None
    /\ op' = name
    /\ arg' = 0
    /\ ret' = outcome
    /\ UNCHANGED <<payload, conn, a_trip, client>>

\* reading property name of legs[i] yields outcome
ReadLeg(name, i, outcome) ==
    /\ op' = name
    /\ arg' = i
    /\ ret' = outcome
    /\ UNCHANGED <<payload, conn, a_trip, client>>

\* a property that goes through first_leg / last_leg fails as they do
ViaEndLegs(c, value) ==
    IF Connection_first_leg(c).exc # "none" THEN Connection_first_leg(c)
    ELSE IF Connection_last_leg(c).exc # "none" THEN Connection_last_leg(c)
    ELSE Return(value)

ReadFirstLeg == ReadConnection("first_leg", Connection_first_leg(conn))

ReadLastLeg == ReadConnection("last_leg", Connection_last_leg(conn))

ReadFirstRouteLeg ==
    ReadConnection("first_route_leg", Return(Connection_first_route_leg(conn)))

ReadLastRouteLeg ==
    ReadConnection("last_route_leg", Return(Connection_last_route_leg(conn)))

ReadFirstStop == ReadConnection("first_stop", Return(Connection_first_stop(conn)))

ReadLastStop == ReadConnection("last_stop", Return(Connection_last_stop(conn)))

ReadDepartureTime ==
    ReadConnection("departure_time", ViaEndLegs(conn, Connection_departure_time(conn)))

ReadArrivalTime ==
    ReadConnection("arrival_time", ViaEndLegs(conn, Connection_arrival_time(conn)))

ReadMultiDate ==
    ReadConnection("multi_date", ViaEndLegs(conn, Connection_multi_date(conn)))

ReadDuration ==
    ReadConnection("duration", ViaEndLegs(conn, Connection_duration(conn)))

ReadTravelDuration ==
    ReadConnection("travel_duration", Return(Connection_travel_duration(conn)))

ReadWalkDuration ==
    ReadConnection("walk_duration", Return(Connection_walk_duration(conn)))

ReadRouteDuration ==
    ReadConnection("route_duration", Return(Connection_route_duration(conn)))

ReadNumTransfers ==
    ReadConnection("num_transfers", Return(Connection_num_transfers(conn)))

ReadNumSameStationTransfers ==
    ReadConnection("num_same_station_transfers",
                   Return(Connection_num_same_station_transfers(conn)))

ReadNumStops ==
    ReadConnection("num_stops", Connection_num_stops(conn))

\* the legs of the connection, by Python index
LegIndices == IF conn = None THEN {} ELSE 0..(Len(conn.legs) - 1)

LegAt(i) == conn.legs[i + 1]

ReadLegDuration ==
    \E i \in LegIndices : ReadLeg("Leg.duration", i, Return(Leg_duration(LegAt(i))))

ReadLegIsWalk ==
    \E i \in LegIndices : ReadLeg("Leg.is_walk", i, Return(Leg_is_walk(LegAt(i))))

ReadLegIsRoute ==
    \E i \in LegIndices : ReadLeg("Leg.is_route", i, Return(Leg_is_route(LegAt(i))))

ReadLegNumStops ==
    \E i \in LegIndices : ReadLeg("Leg.num_stops", i, Leg_num_stops(LegAt(i)))

Next ==
    \/ Construct
    \/ ReadFirstLeg
    \/ ReadLastLeg
    \/ ReadFirstRouteLeg
    \/ ReadLastRouteLeg
    \/ ReadFirstStop
    \/ ReadLastStop
    \/ ReadDepartureTime
    \/ ReadArrivalTime
    \/ ReadMultiDate
    \/ ReadDuration
    \/ ReadTravelDuration
    \/ ReadWalkDuration
    \/ ReadRouteDuration
    \/ ReadNumTransfers
    \/ ReadNumSameStationTransfers
    \/ ReadNumStops
    \/ ReadLegDuration
    \/ ReadLegIsWalk
    \/ ReadLegIsRoute
    \/ ReadLegNumStops

Start(payloads) ==
    /\ payload \in payloads
    /\ conn = None
    /\ a_trip = None
    /\ call = None
    /\ http = <<>>
    /\ response = None
    /\ built = <<>>
    /\ pc = "idle"
    /\ op = "start"
    /\ arg = 0
    /\ ret = Return(None)

\* connections of several legs
Init == Start(ConnPayloads)

Spec == Init /\ [][Next]_vars

\* single legs over all trips
InitLeg == Start(LegPayloads)

SpecLeg == InitLeg /\ [][Next]_vars

\* legs over all pairs of instants
InitTime == Start(TimePayloads)

SpecTime == InitTime /\ [][Next]_vars

\* walk legs around midnight
InitDate == Start(DatePayloads)

SpecDate == InitDate /\ [][Next]_vars

\* legs whose stops are counted
InitStops == Start(StopCountPayloads)

SpecStops == InitStops /\ [][Next]_vars

\* conn.legs = v.  Connection is a plain pydantic BaseModel: its model_config
\* sets neither frozen nor validate_assignment, so the assignment is accepted
\* and legs_not_empty is not run on the new value.
AssignLegs ==
    /\ conn # None
    /\ \E v \in AssignedLegs : conn' = [conn EXCEPT !.legs = v]
    /\ op' = "legs ="
    /\ arg' = 0
    /\ ret' = Return(None)
    /\ UNCHANGED <<payload, a_trip, client>>

NextAssign ==
    \/ Next
    \/ AssignLegs

InitAssign == Start(AssignPayloads)

SpecAssign == InitAssign /\ [][NextAssign]_vars

\* Trip(**payload)
ConstructTrip ==
    /\ op = "start"
    /\ LET r == Trip(payload)
       IN  /\ a_trip' = IF r.exc = "none" THEN r.val ELSE None
           /\ ret' = r
    /\ op' = "Trip"
    /\ arg' = 0
    /\ UNCHANGED <<payload, conn, client>>

\* trip.stop_times
ReadTripStopTimes ==
    /\ a_trip # None
    /\ op' = "Trip.stop_times"
    /\ arg' = 0
    /\ ret' = Return(a_trip.stop_times)
    /\ UNCHANGED <<payload, conn, a_trip, client>>

NextTrip ==
    \/ ConstructTrip
    \/ ReadTripStopTimes

InitTrip == Start(TripPayloads)

SpecTrip == InitTrip /\ [][NextTrip]_vars

\* A query method is called: its endpoint and params are computed first.
Call ==
    /\ pc \in {"idle", "done"}
    /\ \E c \in Calls, now \in Clock :
          call' = [method |-> c.method, args |-> c,
                   endpoint |-> Request(c, now).endpoint,
                   params |-> Request(c, now).params]
    /\ http' = <<>>
    /\ response' = None
    /\ built' = <<>>
    /\ pc' = "called"
    /\ op' = call'.method
    /\ arg' = 0
    /\ ret' = Return(None)
    /\ UNCHANGED <<payload, conn, a_trip>>

\* Variant: a request the server failed on is sent again.
SendGetRequest_retry ==
    /\ pc = "called" \/ (pc = "received" /\ response.status_code >= 500)
    /\ http' = Append(http, [url |-> host \o call.endpoint, params |-> call.params])
    /\ \E r \in Responses(call.method) : response' = r
    /\ pc' = "received"
    /\ UNCHANGED <<payload, conn, a_trip, call, built, op, arg, ret>>

\* _send_get_request: requests.get(url, params=params), which returns the
\* response of the service or raises when there is none
SendGetRequest ==
    /\ pc = "called"
    /\ http' = Append(http, [url |-> host \o call.endpoint, params |-> call.params])
    /\ \/ \E r \in Responses(call.method) :
            /\ response' = r
            /\ pc' = "received"
            /\ UNCHANGED ret
       \/ /\ response' = None
          /\ pc' = "done"
          /\ ret' = Raise("ConnectionError")
    /\ UNCHANGED <<payload, conn, a_trip, call, built, op, arg>>

\* return self._handle_response(response)
HandleResponse ==
    /\ pc = "received"
    /\ IF handle_response(response).exc = "none"
       THEN pc' = "build" /\ UNCHANGED ret
       ELSE pc' = "done" /\ ret' = handle_response(response)
    /\ UNCHANGED <<payload, conn, a_trip, call, http, response, built, op, arg>>

\* data, as _send_get_request returned it to the query method
json_data == handle_response(response).val

\* Variant: when an element fails, the entities built so far are returned.
BuildEntity_partial ==
    /\ pc = "build"
    /\ call.method \in ListMethods
    /\ json_data # None
    /\ json_data.type = "array"
    /\ Len(built) < Len(json_data.items)
    /\ LET entity == Entity(call.method, json_data.items[Len(built) + 1])
       IN  IF entity.exc = "none"
           THEN built' = Append(built, entity.val) /\ UNCHANGED <<pc, ret>>
           ELSE pc' = "done" /\ ret' = Return(built) /\ UNCHANGED built
    /\ UNCHANGED <<payload, conn, a_trip, call, http, response, op, arg>>

\* one turn of [Entity(**x) for x in data]: the next element is validated and
\* the entity appended, or the validation error ends the call
BuildEntity ==
    /\ pc = "build"
    /\ call.method \in ListMethods
    /\ json_data # None
    /\ json_data.type = "array"
    /\ Len(built) < Len(json_data.items)
    /\ LET entity == Entity(call.method, json_data.items[Len(built) + 1])
       IN  IF entity.exc = "none"
           THEN built' = Append(built, entity.val) /\ UNCHANGED <<pc, ret>>
           ELSE pc' = "done" /\ ret' = entity /\ UNCHANGED built
    /\ UNCHANGED <<payload, conn, a_trip, call, http, response, op, arg>>

\* data cannot be turned into entities: None is not iterable, and iterating an
\* object yields its keys, which ** does not accept
IterateFails ==
    /\ pc = "build"
    /\ call.method \in ListMethods
    /\ IF json_data = None
       THEN TRUE
       ELSE json_data.type = "object" /\ DOMAIN json_data.fields # {}
    /\ pc' = "done"
    /\ ret' = Raise("TypeError")
    /\ UNCHANGED <<payload, conn, a_trip, call, http, response, built, op, arg>>

\* the comprehension is exhausted: the list is returned
ReturnList ==
    /\ pc = "build"
    /\ call.method \in ListMethods
    /\ json_data # None
    /\ \/ json_data.type = "array" /\ Len(built) = Len(json_data.items)
       \/ json_data.type = "object" /\ DOMAIN json_data.fields = {}
    /\ pc' = "done"
    /\ ret' = Return(built)
    /\ UNCHANGED <<payload, conn, a_trip, call, http, response, built, op, arg>>

\* get_stop: return Stop(**data) if data else None
ReturnStop ==
    /\ pc = "build"
    /\ call.method = "get_stop"
    /\ LET outcome == IF ~truthy(json_data) THEN Return(NoneStop)
                      ELSE IF json_data.type # "object" THEN Raise("TypeError")
                      ELSE Stop(json_data.fields)
       IN  /\ ret' = outcome
           /\ built' = IF truthy(json_data) /\ outcome.exc = "none"
                       THEN <<outcome.val>>
                       ELSE built
    /\ pc' = "done"
    /\ UNCHANGED <<payload, conn, a_trip, call, http, response, op, arg>>

NextClient ==
    \/ Call
    \/ SendGetRequest
    \/ HandleResponse
    \/ BuildEntity
    \/ IterateFails
    \/ ReturnList
    \/ ReturnStop

InitClient == Start({None})

SpecClient == InitClient /\ [][NextClient]_vars

(***************************************************************************)
(* Reference notions the properties are stated with                        *)
(***************************************************************************)
Min(S) == CHOOSE x \in S : \A y \in S : x <= y
Max(S) == CHOOSE x \in S : \A y \in S : x >= y

\* Python indices of the stop times of trip whose stop equals stop
Occurrences(trip, stop) ==
    {i \in 0..(Len(trip.stop_times) - 1) : trip.stop_times[i + 1].stop = stop}

\* the leg the last Leg property was read from
ReadLegOf(name) == op = name
TheLeg == LegAt(arg)

\* a route leg that carries a trip
RouteLegWithTrip(leg) == leg.type = ROUTE /\ leg.trip # None

C2_NumStopsIsIndexDifference ==
    ReadLegOf("Leg.num_stops") =>
        LET leg == TheLeg
        IN  RouteLegWithTrip(leg) =>
              LET froms == Occurrences(leg.trip, leg.from_stop)
                  tos   == Occurrences(leg.trip, leg.to_stop)
              IN  /\ (/\ Cardinality(froms) = 1
                      /\ Cardinality(tos) = 1
                      /\ Min(froms) < Min(tos))
                        => (ret.exc = "none" /\ ret.val = Min(tos) - Min(froms))
                  /\ (/\ leg.trip = TripOf(<<"A", "B", "C", "D">>)
                      /\ leg.from_stop = "B"
                      /\ leg.to_stop = "D")
                        => (ret.exc = "none" /\ ret.val = 2)

\* num_stops was read on the leg B -> D of the trip A, B, C, D and returned 2
C2_Witness ==
    /\ ReadLegOf("Leg.num_stops")
    /\ TheLeg.type = ROUTE
    /\ TheLeg.trip = TripOf(<<"A", "B", "C", "D">>)
    /\ TheLeg.from_stop = "B"
    /\ TheLeg.to_stop = "D"
    /\ ret.exc = "none"
    /\ ret.val = 2

\* the occurrences of from_stop before the first occurrence of to_stop
FromsBeforeTo(leg) ==
    {i \in Occurrences(leg.trip, leg.from_stop) :
        i < Min(Occurrences(leg.trip, leg.to_stop))}

\* a route leg on a looped trip: from_stop occurs several times before the
\* first occurrence of to_stop
Looped(leg) ==
    /\ RouteLegWithTrip(leg)
    /\ Occurrences(leg.trip, leg.to_stop) # {}
    /\ Cardinality(FromsBeforeTo(leg)) >= 2

\* C3 as stated: on a looped trip the index used for from_stop is that of its
\* FIRST occurrence, and the scan stops at the first occurrence of to_stop.
C3_FirstOccurrenceUsed ==
    (ReadLegOf("Leg.num_stops") /\ Looped(TheLeg)) =>
        LET leg == TheLeg
            idx == scan_stop_times(leg, 0, NoIndex, NoIndex)
        IN  /\ idx.from_stop_index = Min(FromsBeforeTo(leg))
            /\ idx.to_stop_index = Min(Occurrences(leg.trip, leg.to_stop))
            /\ ret.exc = "none"
            /\ ret.val = idx.to_stop_index - Min(FromsBeforeTo(leg))

\* C3 amended: on a looped trip the index used for from_stop is that of its
\* LAST occurrence before the first occurrence of to_stop (every match
\* overwrites the one before), and the scan stops at the first occurrence of
\* to_stop.
C3_LastOccurrenceUsed ==
    (ReadLegOf("Leg.num_stops") /\ Looped(TheLeg)) =>
        LET leg == TheLeg
            idx == scan_stop_times(leg, 0, NoIndex, NoIndex)
        IN  /\ idx.from_stop_index = Max(FromsBeforeTo(leg))
            /\ idx.to_stop_index = Min(Occurrences(leg.trip, leg.to_stop))
            /\ ret.exc = "none"
            /\ ret.val = idx.to_stop_index - Max(FromsBeforeTo(leg))

\* num_stops was read on a looped trip whose from_stop occurs twice, apart,
\* before to_stop
C3_Witness ==
    /\ ReadLegOf("Leg.num_stops")
    /\ Looped(TheLeg)
    /\ Max(FromsBeforeTo(TheLeg)) - Min(FromsBeforeTo(TheLeg)) >= 2
    /\ ret.exc = "none"
    /\ ret.val = 1

\* from_stop or to_stop equals the stop of no StopTime of the trip
StopMissing(leg) ==
    \/ Occurrences(leg.trip, leg.from_stop) = {}
    \/ Occurrences(leg.trip, leg.to_stop) = {}

\* C4: for a ROUTE leg with a trip, num_stops raises ValueError and returns no
\* number whenever from_stop or to_stop equals the stop of no StopTime of the
\* trip, also when stop_times is empty or when from_stop or to_stop is None.
C4_MissingStopRaises ==
    (ReadLegOf("Leg.num_stops") /\ RouteLegWithTrip(TheLeg)) =>
        LET leg == TheLeg
        IN  /\ StopMissing(leg) => ret.exc = "ValueError"
            /\ leg.trip.stop_times = <<>> => ret.exc = "ValueError"
            /\ (leg.from_stop = NoneStop \/ leg.to_stop = NoneStop)
                  => ret.exc = "ValueError"

\* num_stops was read on a route leg without from_stop whose to_stop is on the
\* trip, and raised
C4_Witness ==
    /\ ReadLegOf("Leg.num_stops")
    /\ RouteLegWithTrip(TheLeg)
    /\ TheLeg.from_stop = NoneStop
    /\ Occurrences(TheLeg.trip, TheLeg.to_stop) # {}
    /\ ret.exc = "ValueError"

\* C5: num_stops returns 0 and does not raise when the leg is a WALK leg, with
\* or without a trip, or when the trip is absent, also on a ROUTE leg, whatever
\* from_stop and to_stop are.
C5_WalkOrNoTripIsZero ==
    (ReadLegOf("Leg.num_stops") /\ (TheLeg.type = WALK \/ TheLeg.trip = None))
        => (ret.exc = "none" /\ ret.val = 0)

\* num_stops was read on a WALK leg that carries a trip its stops are not on,
\* and returned 0
C5_Witness ==
    /\ ReadLegOf("Leg.num_stops")
    /\ TheLeg.type = WALK
    /\ TheLeg.trip # None
    /\ StopMissing(TheLeg)
    /\ ret.exc = "none"
    /\ ret.val = 0

\* positions (from 1) of the route legs of the connection
RouteIdx == {i \in 1..Len(conn.legs) : conn.legs[i].type = ROUTE}

\* the leg types of the connection, in order
LegTypes == [i \in 1..Len(conn.legs) |-> conn.legs[i].type]

\* C6: num_transfers is (number of route legs) - 1: -1, not 0, for a
\* connection without a route leg, 0 for one with exactly one route leg.
C6_NumTransfers ==
    op = "num_transfers" =>
        /\ ret.exc = "none"
        /\ ret.val = Cardinality(RouteIdx) - 1
        /\ RouteIdx = {} => ret.val = -1
        /\ Cardinality(RouteIdx) = 1 => ret.val = 0

\* num_transfers was read on a connection of walk legs only and returned -1
C6_Witness ==
    /\ op = "num_transfers"
    /\ Len(conn.legs) >= 2
    /\ RouteIdx = {}
    /\ ret.val = -1

\* positions i with legs i and i+1 both route legs
RoutePairs == {i \in 1..(Len(conn.legs) - 1) : {i, i + 1} \subseteq RouteIdx}

\* positions where a run of consecutive route legs starts
RunStarts == {i \in RouteIdx : (i - 1) \notin RouteIdx}

\* C7: num_same_station_transfers is the number of positions i with legs[i]
\* and legs[i+1] both route legs: 1 for [ROUTE, ROUTE, WALK, ROUTE], 0 for a
\* single leg, and k-1 for each run of k consecutive route legs.
C7_NumSameStationTransfers ==
    op = "num_same_station_transfers" =>
        /\ ret.exc = "none"
        /\ ret.val = Cardinality(RoutePairs)
        /\ LegTypes = <<ROUTE, ROUTE, WALK, ROUTE>> => ret.val = 1
        /\ Len(conn.legs) = 1 => ret.val = 0
        /\ ret.val = Cardinality(RouteIdx) - Cardinality(RunStarts)

\* num_same_station_transfers was read on [ROUTE, ROUTE, WALK, ROUTE] and
\* returned 1
C7_Witness ==
    /\ op = "num_same_station_transfers"
    /\ LegTypes = <<ROUTE, ROUTE, WALK, ROUTE>>
    /\ ret.val = 1

\* C8: first_route_leg is the route leg of lowest index and last_route_leg the
\* one of highest index; both are None exactly when there is no route leg, and
\* then first_stop and last_stop are None; otherwise first_stop is the
\* from_stop of first_route_leg and last_stop the to_stop of last_route_leg.
C8_RouteLegEnds ==
    /\ op = "first_route_leg" =>
          /\ ret.exc = "none"
          /\ (ret.val = None) <=> (RouteIdx = {})
          /\ RouteIdx # {} => ret.val = conn.legs[Min(RouteIdx)]
    /\ op = "last_route_leg" =>
          /\ ret.exc = "none"
          /\ (ret.val = None) <=> (RouteIdx = {})
          /\ RouteIdx # {} => ret.val = conn.legs[Max(RouteIdx)]
    /\ op = "first_stop" =>
          /\ ret.exc = "none"
          /\ RouteIdx = {} => ret.val = NoneStop
          /\ RouteIdx # {} =>
                /\ ret.val = conn.legs[Min(RouteIdx)].from_stop
                /\ ret.val = Connection_first_route_leg(conn).from_stop
    /\ op = "last_stop" =>
          /\ ret.exc = "none"
          /\ RouteIdx = {} => ret.val = NoneStop
          /\ RouteIdx # {} =>
                /\ ret.val = conn.legs[Max(RouteIdx)].to_stop
                /\ ret.val = Connection_last_route_leg(conn).to_stop

\* last_stop was read on a connection that ends with a walk leg and has two
\* route legs with different to_stop
C8_Witness ==
    /\ op = "last_stop"
    /\ Cardinality(RouteIdx) >= 2
    /\ Max(RouteIdx) < Len(conn.legs)
    /\ conn.legs[Min(RouteIdx)].to_stop # conn.legs[Max(RouteIdx)].to_stop
    /\ ret.val = conn.legs[Max(RouteIdx)].to_stop

\* whole seconds from instant d to instant a, rounded down
ElapsedSeconds(d, a) ==
    (a.day - d.day) * 86400 + (a.sec - d.sec) - (IF a.us < d.us THEN 1 ELSE 0)

\* what the claim says of a duration read as v for departure d and arrival a
SecondsComponent(v, d, a) ==
    LET e == ElapsedSeconds(d, a)
    IN  /\ v \in 0..86399
        /\ v = e % 86400
        /\ e >= 86400 => v = e - 86400 * (e \div 86400)
        /\ (e < 0 /\ e > -86400 /\ a.us = d.us) => v = 86400 - (0 - e)

\* C9: Leg.duration and Connection.duration are the seconds component of
\* arrival - departure: the elapsed whole seconds modulo 86400, in 0..86399; a
\* span of a day or more loses its whole days, an arrival earlier than the
\* departure gives 86400 minus the gap, not a negative number or an error.
C9_DurationSecondsComponent ==
    /\ op = "Leg.duration" =>
          /\ ret.exc = "none"
          /\ SecondsComponent(ret.val, TheLeg.departure_time, TheLeg.arrival_time)
    /\ op = "duration" =>
          /\ ret.exc = "none"
          /\ SecondsComponent(ret.val, conn.legs[1].departure_time,
                              conn.legs[Len(conn.legs)].arrival_time)

\* duration was read on a connection of two legs whose last leg arrives 20
\* minutes before the first departs, and returned 86400 - 1200
C9_Witness ==
    /\ op = "duration"
    /\ Len(conn.legs) = 2
    /\ ElapsedSeconds(conn.legs[1].departure_time, conn.legs[2].arrival_time) = -1200
    /\ ret.val = 85200

\* the durations of the legs added up from the first leg on
DurationTotal(legs) ==
    LET f[n \in 0..Len(legs)] ==
            IF n = 0 THEN 0 ELSE f[n - 1] + Leg_duration(legs[n])
    IN  f[Len(legs)]

\* C10: travel_duration is the sum of the durations of all legs, gaps between
\* legs not counted; it equals walk_duration + route_duration, and the walk
\* legs and the route legs together are all the legs.
C10_TravelDuration ==
    /\ op = "travel_duration" =>
          /\ ret.exc = "none"
          /\ ret.val = DurationTotal(conn.legs)
          /\ ret.val = Connection_walk_duration(conn) + Connection_route_duration(conn)
    /\ op = "walk_duration" =>
          ret.val + Connection_route_duration(conn) = DurationTotal(conn.legs)
    /\ op = "route_duration" =>
          ret.val + Connection_walk_duration(conn) = DurationTotal(conn.legs)
    /\ conn # None =>
          /\ Len(walk_legs(conn.legs)) + Len(route_legs(conn.legs)) = Len(conn.legs)
          /\ \A i \in 1..Len(conn.legs) :
                Leg_is_walk(conn.legs[i]) # Leg_is_route(conn.legs[i])

\* travel_duration was read on a walk leg, a route leg and, five minutes
\* later, another route leg, and returned less than the time from first
\* departure to last arrival
C10_Witness ==
    /\ op = "travel_duration"
    /\ LegTypes = <<WALK, ROUTE, ROUTE>>
    /\ conn.legs[3].departure_time.sec = conn.legs[2].arrival_time.sec + 300
    /\ ret.val = 600 + 1200 + 1800
    /\ ret.val < Connection_duration(conn)

\* C11: departure_time is the departure_time of legs[0] and arrival_time the
\* arrival_time of legs[-1], also when that leg is a WALK leg; they are not
\* taken from the first / last route leg, and no other leg has a say.
C11_EndLegTimes ==
    /\ op = "departure_time" =>
          (ret.exc = "none" /\ ret.val = conn.legs[1].departure_time)
    /\ op = "arrival_time" =>
          (ret.exc = "none" /\ ret.val = conn.legs[Len(conn.legs)].arrival_time)

\* departure_time was read on a connection that starts with a walk leg and
\* whose first route leg departs at another time
C11_Witness ==
    /\ op = "departure_time"
    /\ conn.legs[1].type = WALK
    /\ RouteIdx # {}
    /\ conn.legs[Min(RouteIdx)].departure_time # conn.legs[1].departure_time
    /\ ret.val = conn.legs[1].departure_time

\* C12: multi_date is true exactly when the date of the first leg's
\* departure_time differs from the date of the last leg's arrival_time, whatever
\* time elapses: true from 2024-08-18T23:50:00 to 2024-08-19T00:10:00 (20
\* minutes), false from 00:10:00 to 23:10:00 of one date (23 hours).
C12_MultiDate ==
    op = "multi_date" =>
        LET d == conn.legs[1].departure_time
            a == conn.legs[Len(conn.legs)].arrival_time
        IN  /\ ret.exc = "none"
            /\ ret.val <=> (d.day # a.day)
            /\ (d = DT(739116, 23, 50, 0, 0) /\ a = DT(739117, 0, 10, 0, 0))
                  => ret.val
            /\ (d = DT(739117, 0, 10, 0, 0) /\ a = DT(739117, 23, 10, 0, 0))
                  => ~ret.val

\* multi_date was read on a connection of two legs that departs at
\* 2024-08-18T23:50:00 and arrives 20 minutes later, and returned true
C12_Witness ==
    /\ op = "multi_date"
    /\ Len(conn.legs) = 2
    /\ conn.legs[1].departure_time = DT(739116, 23, 50, 0, 0)
    /\ conn.legs[2].arrival_time = DT(739117, 0, 10, 0, 0)
    /\ Connection_duration(conn) = 1200
    /\ ret.val = TRUE

\* the stopTimes input of the trip payload
StopTimesAbsent == "stopTimes" \notin DOMAIN payload
StopTimesNull == ~StopTimesAbsent /\ payload.stopTimes.null
StopTimesGiven == ~StopTimesAbsent /\ ~payload.stopTimes.null

\* C13 as stated: a Trip built from an absent or null stopTimes has an empty
\* stop_times and the construction never fails for the missing field.
C13_AbsentOrNullIsEmpty ==
    (op = "Trip" /\ (StopTimesAbsent \/ StopTimesNull)) =>
        (ret.exc = "none" /\ a_trip # None /\ a_trip.stop_times = <<>>)

\* C13: a Trip built from a null stopTimes has an empty stop_times; an absent
\* stopTimes fails the construction (field required) and no Trip exists; an
\* array of valid stop times is kept element by element in the given order.
C13_NullIsEmptyAbsentRaises ==
    /\ (op = "Trip" /\ StopTimesNull) =>
          (ret.exc = "none" /\ a_trip # None /\ a_trip.stop_times = <<>>)
    /\ StopTimesAbsent => a_trip = None
    /\ (op = "Trip" /\ StopTimesAbsent) => ret.exc = "ValidationError"
    /\ (a_trip # None /\ StopTimesGiven) =>
          /\ Len(a_trip.stop_times) = Len(payload.stopTimes.items)
          /\ \A i \in 1..Len(a_trip.stop_times) :
                a_trip.stop_times[i].stop = payload.stopTimes.items[i].stop
    /\ op = "Trip.stop_times" => ret = Return(a_trip.stop_times)

\* a Trip was built from a null stopTimes and its stop_times read back empty
C13_Witness ==
    /\ op = "Trip.stop_times"
    /\ StopTimesNull
    /\ ret.val = <<>>

\* C15: entities are immutable once constructed: whatever is done with a
\* Connection, it still has the non-empty legs it was built with.
C15_Immutable ==
    conn # None => (conn.legs = payload.legs /\ conn.legs # <<>>)

\* the service answered the current call, and what it answered
Answered == response # None
Failed == Answered /\ response.status_code # 200
ApiErrorBody == Answered /\ response.body \in ErrorObjects

\* C16: a non-200 answer whose body is a well-formed API error makes the call
\* raise PublicTransitClientException; its api_error has the status and the
\* message of the body, its text is "API Error <status>: <message>", and
\* nothing is returned or built.
C16_ApiErrorRaised ==
    (pc \in {"build", "done"} /\ Failed /\ ApiErrorBody) =>
        /\ pc = "done"
        /\ ret.exc = "PublicTransitClientException"
        /\ ret.val.api_error.status = response.body.fields.status
        /\ ret.val.api_error.message = response.body.fields.message
        /\ response.body.fields.status = 404 =>
              ret.val.args
                = "API Error 404: The requested stop with ID 'NOT_EXISTING' was not found."
        /\ response.body.fields.status = 400 =>
              ret.val.args = "API Error 400: Invalid coordinates"
        /\ built = <<>>

\* a call ended on a 500 answer whose body is the API error of status 404
C16_Witness ==
    /\ pc = "done"
    /\ ApiErrorBody
    /\ response.status_code = 500
    /\ response.body.fields.status = 404
    /\ ret.exc = "PublicTransitClientException"

\* the URL each query method is documented to request
ExpectedUrl ==
    CASE call.method = "search_stops" -> "http://fakehost/schedule/stops/autocomplete"
      [] call.method = "nearest_stops" -> "http://fakehost/schedule/stops/nearest"
      [] call.method = "get_stop" -> "http://fakehost/schedule/stops/A"
      [] call.method = "get_next_departures" ->
            IF call.args.stop.kind = "Stop"
            THEN "http://fakehost/schedule/stops/A/departures"
            ELSE "http://fakehost/schedule/stops/B/departures"
      [] call.method = "get_connections" -> "http://fakehost/routing/connections"
      [] call.method = "get_isolines" -> "http://fakehost/routing/isolines"

\* C17: a call issues exactly one GET, to host + endpoint with the params it
\* was given, whatever the answer: none before it is sent, one from then on,
\* also after the call has failed.
C17_ExactlyOneGet ==
    /\ pc \in {"idle", "called"} => http = <<>>
    /\ pc \in {"received", "build", "done"} =>
          /\ Len(http) = 1
          /\ http[1].url = ExpectedUrl
          /\ http[1].params = call.params

\* a call failed on a 500 answer that is not JSON, after one GET
C17_Witness ==
    /\ pc = "done"
    /\ Answered
    /\ response.status_code = 500
    /\ ret.exc = "HTTPError"
    /\ Len(http) = 1

\* C18: when the status of the answer is not 200, no entity is built from its
\* body and none is returned: the call raises, or get_stop returns None.
C18_NoEntityOnFailure ==
    Failed =>
        /\ built = <<>>
        /\ pc = "done" =>
              \/ ret.exc # "none"
              \/ call.method = "get_stop" /\ ret.val = NoneStop

\* a call ended on a 404 answer whose body is an array of two elements
C18_Witness ==
    /\ pc = "done"
    /\ Answered
    /\ response.status_code = 404
    /\ response.body.type = "array"
    /\ Len(response.body.items) = 2
    /\ ret.exc # "none"
    /\ built = <<>>

\* the request parameters identify the place given as source / target
Identified(side, place, params) ==
    /\ place.kind = "Stop" =>
          (side \o "StopId") \in DOMAIN params /\ params[side \o "StopId"] = place.id
    /\ place.kind = "str" =>
          (side \o "StopId") \in DOMAIN params /\ params[side \o "StopId"] = place.value
    /\ place.kind \in {"Coordinate", "tuple"} =>
          {side \o "Latitude", side \o "Longitude"} \subseteq DOMAIN params

\* C19: get_connections and get_isolines identify the source (and
\* get_connections the target) in the request parameters whatever its type: a
\* Stop or a string by sourceStopId / targetStopId, a Coordinate or a tuple by
\* sourceLatitude and sourceLongitude / targetLatitude and targetLongitude.
C19_PlacesIdentified ==
    /\ (pc # "idle" /\ call.method \in {"get_connections", "get_isolines"}) =>
          Identified("source", call.args.source, call.params)
    /\ (pc # "idle" /\ call.method = "get_connections") =>
          Identified("target", call.args.target, call.params)

\* the element of a payload fails validation: a stop without id, a trip
\* without stopTimes, a connection without legs
FailsValidation(x) ==
    \/ "id" \in DOMAIN x /\ x.id = NoneStop
    \/ "stop" \in DOMAIN x /\ x.stop.id = NoneStop
    \/ "trip" \in DOMAIN x /\ "stopTimes" \notin DOMAIN x.trip
    \/ "legs" \in DOMAIN x /\ x.legs = <<>>
    \/ "connection" \in DOMAIN x /\ x.connection.legs = <<>>

\* the entity is the one built from element x of the payload
BuiltFrom(entity, x) ==
    CASE call.method = "search_stops" -> entity = x.id
      [] call.method = "nearest_stops" -> entity.stop = x.stop.id
      [] call.method = "get_next_departures" -> entity.stop_time.stop = x.stopTime.stop
      [] call.method = "get_connections" -> entity.legs = x.legs
      [] call.method = "get_isolines" ->
            /\ entity.stop = x.stop.id
            /\ "connection" \in DOMAIN x => entity.connection.legs = x.connection.legs

\* C20: a list method that was answered 200 with an array either returns one
\* entity per element, in the order of the payload, or raises: when an element
\* fails validation the call raises and returns none of the entities built
\* from the elements before it.
C20_AllOrNothing ==
    /\ (pc = "done" /\ call.method \in ListMethods /\ Answered
          /\ response.status_code = 200 /\ response.body.type = "array") =>
          LET items == response.body.items
          IN  IF \E i \in 1..Len(items) : FailsValidation(items[i])
              THEN ret.exc = "ValidationError"
              ELSE /\ ret.exc = "none"
                   /\ Len(ret.val) = Len(items)
                   /\ \A i \in 1..Len(items) : BuiltFrom(ret.val[i], items[i])
    /\ (pc = "done" /\ call.method \in ListMethods /\ ret.exc = "none") =>
          /\ Answered
          /\ response.status_code = 200
          /\ response.body.type = "array"
          /\ Len(ret.val) = Len(response.body.items)

\* get_connections was answered a connection followed by one without legs: the
\* first was built, the call raised
C20_Witness ==
    /\ pc = "done"
    /\ call.method = "get_connections"
    /\ Answered
    /\ response.status_code = 200
    /\ response.body = Array(<<[legs |-> <<WalkLeg>>], [legs |-> <<>>]>>)
    /\ Len(built) = 1
    /\ ret.exc = "ValidationError"

\* num_stops of a leg cannot be computed: it is a route leg with a trip on
\* which to_stop does not occur, or from_stop does not occur at or before the
\* first occurrence of to_stop
Unresolved(leg) ==
    /\ RouteLegWithTrip(leg)
    /\ \/ Occurrences(leg.trip, leg.to_stop) = {}
       \/ \A i \in Occurrences(leg.trip, leg.from_stop) :
             i > Min(Occurrences(leg.trip, leg.to_stop))

\* the number of stops a leg counts for: 0 for a walk leg or a leg without
\* trip, else from the last from_stop up to the first to_stop
StopsOf(leg) ==
    IF ~RouteLegWithTrip(leg) THEN 0
    ELSE LET to == Min(Occurrences(leg.trip, leg.to_stop))
         IN  to - Max({i \in Occurrences(leg.trip, leg.from_stop) : i <= to})

RECURSIVE TotalStops(_)
TotalStops(legs) ==
    IF legs = <<>> THEN 0 ELSE StopsOf(Head(legs)) + TotalStops(Tail(legs))

\* C21: Connection.num_stops is the sum of Leg.num_stops over the route legs,
\* walk legs and route legs without trip counting 0; when some route leg with a
\* trip cannot find its from_stop or to_stop it raises ValueError and returns
\* no partial sum.
C21_NumStopsSum ==
    op = "num_stops" =>
        IF \E i \in 1..Len(conn.legs) : Unresolved(conn.legs[i])
        THEN ret = Raise("ValueError")
        ELSE ret = Return(TotalStops(conn.legs))

\* num_stops was read on a connection of a route leg over two stops followed by
\* a route leg whose to_stop is not on its trip, and raised
C21_Witness ==
    /\ op = "num_stops"
    /\ Len(conn.legs) = 2
    /\ ~Unresolved(conn.legs[1])
    /\ StopsOf(conn.legs[1]) = 2
    /\ RouteLegWithTrip(conn.legs[2])
    /\ Occurrences(conn.legs[2].trip, conn.legs[2].to_stop) = {}
    /\ ret.exc = "ValueError"

\* C22: Leg.num_stops never returns a negative number: when it returns for a
\* route leg with a trip, the index it used for from_stop is an occurrence of
\* from_stop at or before the first occurrence of to_stop (the result is 0 when
\* from_stop equals to_stop); when the first occurrence of to_stop precedes
\* every occurrence of from_stop it raises ValueError although both stops are
\* on the trip.
C22_NeverNegative ==
    ReadLegOf("Leg.num_stops") =>
        LET leg == TheLeg
        IN  /\ ret.exc = "none" => ret.val >= 0
            /\ (RouteLegWithTrip(leg) /\ ret.exc = "none") =>
                  /\ Occurrences(leg.trip, leg.to_stop) # {}
                  /\ (Min(Occurrences(leg.trip, leg.to_stop)) - ret.val)
                        \in Occurrences(leg.trip, leg.from_stop)
                  /\ leg.from_stop = leg.to_stop => ret.val = 0
            /\ (/\ RouteLegWithTrip(leg)
                /\ Occurrences(leg.trip, leg.from_stop) # {}
                /\ Occurrences(leg.trip, leg.to_stop) # {}
                /\ Min(Occurrences(leg.trip, leg.to_stop))
                      < Min(Occurrences(leg.trip, leg.from_stop)))
                  => ret = Raise("ValueError")

\* num_stops was read on a route leg from B to A whose trip calls at A, then B,
\* then A again, and raised
C22_Witness ==
    /\ ReadLegOf("Leg.num_stops")
    /\ TheLeg.type = ROUTE
    /\ TheLeg.trip = TripOf(<<"A", "B", "A">>)
    /\ TheLeg.from_stop = "B"
    /\ TheLeg.to_stop = "A"
    /\ ret.exc = "ValueError"

\* the route legs are contiguous: no walk leg lies between two route legs
Contiguous == \A i \in 1..Len(conn.legs) : (Min(RouteIdx) <= i /\ i <= Max(RouteIdx)) => i \in RouteIdx

\* C23: 0 <= num_same_station_transfers and -1 <= num_transfers <= len(legs) - 1;
\* with at least one route leg, num_same_station_transfers <= num_transfers,
\* with equality exactly when the route legs are contiguous.
C23_TransferBounds ==
    /\ op = "num_transfers" =>
          /\ ret.exc = "none"
          /\ -1 <= ret.val
          /\ ret.val <= Len(conn.legs) - 1
          /\ RouteIdx # {} =>
                /\ Cardinality(RoutePairs) <= ret.val
                /\ (Cardinality(RoutePairs) = ret.val) <=> Contiguous
    /\ op = "num_same_station_transfers" =>
          /\ ret.exc = "none"
          /\ 0 <= ret.val
          /\ RouteIdx # {} =>
                /\ ret.val <= Cardinality(RouteIdx) - 1
                /\ (ret.val = Cardinality(RouteIdx) - 1) <=> Contiguous

\* num_same_station_transfers was read on [ROUTE, WALK, ROUTE, ROUTE] and
\* returned 1, one less than the two transfers
C23_Witness ==
    /\ op = "num_same_station_transfers"
    /\ LegTypes = <<ROUTE, WALK, ROUTE, ROUTE>>
    /\ ret.val = 1
    /\ Connection_num_transfers(conn) = 2

\* what _handle_response makes of the answer to the current call
Handled == handle_response(response)

\* the answer's body is JSON, and what it decodes to
JsonBody == response.body.type # "text"
Decoded == IF response.body.type = "null" THEN None ELSE response.body

\* the outcome of the fallback path: HTTPError from 400 on, else None returned
FallbackOutcome ==
    IF response.status_code >= 400 THEN Raise("HTTPError") ELSE Return(None)

\* C24 as stated: for a status other than 200, every body that is not JSON or
\* is JSON that does not validate as an APIError takes the fallback path.
C24_FallbackForEveryOtherBody ==
    (Failed /\ ~ApiErrorBody) => Handled = FallbackOutcome

\* C24: _handle_response returns the decoded body only for status 200.  For
\* another status it raises PublicTransitClientException exactly when the body
\* is a JSON object that validates as an APIError; a body that is not JSON, or
\* a JSON object that does not validate, takes the fallback path (HTTPError
\* from status 400 on, else None is returned, so that get_stop returns None and
\* the list methods fail iterating None); a JSON body that is not an object
\* (array, null) raises TypeError, whatever the status.
C24_HandleResponse ==
    Answered =>
        /\ (response.status_code = 200 /\ JsonBody) => Handled = Return(Decoded)
        /\ (Handled.exc = "none" /\ Handled.val # None) => response.status_code = 200
        /\ Failed =>
              /\ (Handled.exc = "PublicTransitClientException") <=> ApiErrorBody
              /\ (~JsonBody \/ (response.body.type = "object" /\ ~ApiErrorBody))
                    => Handled = FallbackOutcome
              /\ response.body.type \in {"array", "null"} => Handled = Raise("TypeError")
        /\ (pc = "done" /\ Handled.exc # "none") => ret = Handled
        /\ (pc = "done" /\ Failed /\ Handled = Return(None)) =>
              IF call.method = "get_stop"
              THEN ret = Return(NoneStop)
              ELSE ret = Raise("TypeError")

\* search_stops was answered 204 with a body that is not JSON: nothing was
\* raised by the handler and the call failed iterating None
C24_Witness ==
    /\ pc = "done"
    /\ Answered
    /\ call.method = "search_stops"
    /\ response.status_code = 204
    /\ response.body = NotJson
    /\ ret = Raise("TypeError")

====
